---- MODULE Spec2Model ----
(***************************************************************************)
(* The to-do list screen of src/screens/Home.tsx: the in-memory task list  *)
(* held in React state, the three handlers that change it, and the         *)
(* AsyncStorage record it is loaded from on mount and saved to after every *)
(* change.  A handler, the re-render its setState causes and the effects   *)
(* that re-render runs are one step: React flushes the update of a         *)
(* discrete event before it dispatches the next one.  The storage calls    *)
(* are asynchronous: getItem and setItem are issued by the effects and     *)
(* take effect later, in any order.                                        *)
(***************************************************************************)
EXTENDS Integers, Sequences, FiniteSets

(* ------------------------------ bounds -------------------------------- *)
MaxTasks == 2        \* longest list addTask is let to build
MaxTicks == 1        \* milliseconds the clock advances over a run
MaxPending == 2      \* setItem calls in flight at once
MaxOps == 2          \* presses of add, toggle and delete over a run

(* --------------------------- strings ---------------------------------- *)
\* A string is a sequence of one-character strings.
Digits == <<"0", "1", "2", "3", "4", "5", "6", "7", "8", "9">>

\* Number.prototype.toString(): the decimal digits of n.
RECURSIVE ToString(_)
ToString(n) ==
    IF n < 10 THEN <<Digits[n + 1]>>
    ELSE ToString(n \div 10) \o <<Digits[(n % 10) + 1]>>

RECURSIVE TrimStart(_)
TrimStart(s) ==
    IF s # <<>> /\ Head(s) = " " THEN TrimStart(Tail(s)) ELSE s

RECURSIVE TrimEnd(_)
TrimEnd(s) ==
    IF s # <<>> /\ s[Len(s)] = " " THEN TrimEnd(SubSeq(s, 1, Len(s) - 1)) ELSE s

\* String.prototype.trim()
Trim(s) == TrimEnd(TrimStart(s))

\* What the user types into the TextInput.
Inputs ==
    { <<>>, <<" ", " ">>, <<" ", "a", " ">> }

(* --------------------------- JS values -------------------------------- *)
\* The values JSON.parse can hand to setTasks: an array of Task records,
\* or something that is no array.
Arr(items) == [kind |-> "array", items |-> items]
Obj == [kind |-> "object", items |-> <<>>]
JsNull == [kind |-> "null", items |-> <<>>]

Task(id, text, completed) == [id |-> id, text |-> text, completed |-> completed]

(* --------------------------- JSON text -------------------------------- *)
\* The stored text, as its sequence of JSON tokens.
Tok(t, s) == [t |-> t, s |-> s]
P(t) == Tok(t, <<>>)
Str(s) == Tok("str", s)
Bool(b) == IF b THEN P("true") ELSE P("false")

KeyId == Str(<<"i", "d">>)
KeyText == Str(<<"t", "e", "x", "t">>)
KeyCompleted == Str(<<"c", "o", "m", "p", "l", "e", "t", "e", "d">>)

\* {"id":"..","text":"..","completed":false}
StringifyTask(task) ==
    << P("{"), KeyId, P(":"), Str(task.id), P(","),
       KeyText, P(":"), Str(task.text), P(","),
       KeyCompleted, P(":"), Bool(task.completed), P("}") >>

TaskTokens == Len(StringifyTask(Task(<<>>, <<>>, FALSE)))

RECURSIVE StringifyItems(_)
StringifyItems(items) ==
    IF items = <<>> THEN <<>>
    ELSE IF Len(items) = 1 THEN StringifyTask(items[1])
    ELSE StringifyTask(Head(items)) \o <<P(",")>> \o StringifyItems(Tail(items))

\* A serializer that writes every task as not completed.
StringifyDropsFlag(items) ==
    <<P("[")>>
    \o StringifyItems([i \in DOMAIN items |-> [items[i] EXCEPT !.completed = FALSE]])
    \o <<P("]")>>

\* JSON.stringify(tasks), tasks an array of Task records.
Stringify(items) == <<P("[")>> \o StringifyItems(items) \o <<P("]")>>

\* An object with the three Task members starts at token i.
IsTaskAt(toks, i) ==
    /\ i + TaskTokens - 1 <= Len(toks)
    /\ toks[i] = P("{")
    /\ toks[i + 1] = KeyId /\ toks[i + 2] = P(":") /\ toks[i + 3].t = "str"
    /\ toks[i + 4] = P(",")
    /\ toks[i + 5] = KeyText /\ toks[i + 6] = P(":") /\ toks[i + 7].t = "str"
    /\ toks[i + 8] = P(",")
    /\ toks[i + 9] = KeyCompleted /\ toks[i + 10] = P(":")
    /\ toks[i + 11].t \in {"true", "false"}
    /\ toks[i + 12] = P("}")

TaskAt(toks, i) == Task(toks[i + 3].s, toks[i + 7].s, toks[i + 11].t = "true")

SyntaxError == [ok |-> FALSE, value |-> JsNull]
Parsed(v) == [ok |-> TRUE, value |-> v]

\* The elements of an array from token i up to the closing bracket.
RECURSIVE ParseItems(_, _)
ParseItems(toks, i) ==
    IF ~IsTaskAt(toks, i) THEN SyntaxError
    ELSE LET next == i + TaskTokens
         IN  IF next = Len(toks) /\ toks[next] = P("]")
             THEN Parsed(Arr(<<TaskAt(toks, i)>>))
             ELSE IF next < Len(toks) /\ toks[next] = P(",")
             THEN LET rest == ParseItems(toks, next + 1)
                  IN  IF rest.ok
                      THEN Parsed(Arr(<<TaskAt(toks, i)>> \o rest.value.items))
                      ELSE SyntaxError
             ELSE SyntaxError

\* JSON.parse(text): the value, or a SyntaxError thrown.
Parse(toks) ==
    IF toks = <<P("["), P("]")>> THEN Parsed(Arr(<<>>))
    ELSE IF toks = <<P("{"), P("}")>> THEN Parsed(Obj)
    ELSE IF toks = <<P("null")>> THEN Parsed(JsNull)
    ELSE IF toks # <<>> /\ toks[1] = P("[") THEN ParseItems(toks, 2)
    ELSE SyntaxError

(* --------------------------- storage ---------------------------------- *)
\* What AsyncStorage.getItem resolves to: null, or the stored text.
Null == [present |-> FALSE, value |-> <<>>]
Item(v) == [present |-> TRUE, value |-> v]

\* The record was written by a save of these tasks, or by something else.
BySave(items) == [bySave |-> TRUE, items |-> items]
NotBySave == [bySave |-> FALSE, items |-> <<>>]

\* Date.now() when the app is opened.
StartClock == 9

\* What can lie under the key when the app is first opened: nothing, the
\* list an earlier session saved, text that is no JSON, JSON that is no array.
EarlierTasks ==
    { <<Task(ToString(StartClock - 1), <<"b">>, TRUE)>>,
      <<Task(ToString(StartClock - 2), <<"a">>, FALSE),
        Task(ToString(StartClock - 1), <<"b">>, TRUE)>> }
Truncated == <<P("["), P("{"), KeyId>>
Corrupted == { Truncated, <<P("{"), P("}")>>, <<P("null")>> }


VARIABLES
    tasks,          \* useState<Task[]>: the value last given to setTasks
    inputText,      \* useState(''): the text of the TextInput
    alert,          \* the title of the Alert on screen, "" when none
    crashed,        \* a render threw: the screen is gone
    storage,        \* the AsyncStorage item under STORAGE_KEY
    written,        \* history: which save wrote storage
    load,           \* loadTasks: where it stands, what getItem gave it
    pendingWrites,  \* the setItem calls issued and not yet carried out
    clock,          \* Date.now()
    lastOp,         \* history: the last handler run; for a toggle, the list before it
    session,        \* history: what this run of the app started from
    ops             \* presses of add, toggle and delete so far

vars == <<tasks, inputText, alert, crashed, storage, written, load,
          pendingWrites, clock, lastOp, session, ops>>

\* The ids a press on a row can carry: those of the rows on screen, and
\* that of the row the last press deleted (a press that was already on
\* its way).
RowIds ==
    { tasks.items[i].id : i \in DOMAIN tasks.items }
        \cup (IF lastOp.op = "delete" THEN {lastOp.arg} ELSE {})

Op(op, arg, before) == [op |-> op, arg |-> arg, before |-> before]

\* saveTasks of the render whose list is items: setItem is issued with the
\* text of that render's list.
saveTasks(items) == <<[value |-> Stringify(items), src |-> items]>>

AwaitingGetItem == [pc |-> "getItem", result |-> Null, src |-> NotBySave]

\* The first render: tasks = [], inputText = '', then both effects run:
\* loadTasks() issues getItem, saveTasks() issues setItem of "[]".
Mounted(st) ==
    /\ tasks = Arr(<<>>)
    /\ inputText = <<>>
    /\ alert = ""
    /\ crashed = FALSE
    /\ load = AwaitingGetItem
    /\ pendingWrites = saveTasks(<<>>)
    /\ lastOp = Op("mount", <<>>, <<>>)
    /\ session = [start |-> st, failed |-> FALSE]

Init ==
    /\ \/ storage = Null /\ written = NotBySave
       \/ \E items \in EarlierTasks :
              storage = Item(Stringify(items)) /\ written = BySave(items)
       \/ \E text \in Corrupted : storage = Item(text) /\ written = NotBySave
    /\ clock = StartClock
    /\ ops = 0
    /\ Mounted(storage)

\* The user can press and type: the screen is up and no Alert covers it.
Interactive == ~crashed /\ alert = ""

\* const completedCount = tasks.filter((task) => task.completed).length
completedCount == Len(SelectSeq(tasks.items, LAMBDA task : task.completed))

\* const totalCount = tasks.length
totalCount == Len(tasks.items)

\* One more press fits the run.
CanPress == ops < MaxOps

\* A re-render of a changed list runs the [tasks] effect, which saves.
CanSave == Len(pendingWrites) < MaxPending

\* onChangeText={setInputText}
setInputText(text) ==
    /\ Interactive
    /\ text # inputText
    /\ inputText' = text
    /\ UNCHANGED <<tasks, alert, crashed, storage, written, load,
                   pendingWrites, clock, lastOp, session, ops>>

\* An add that puts the new task first: [newTask, ...tasks].
addTaskPrepends ==
    /\ Interactive
    /\ CanPress
    /\ IF Trim(inputText) = <<>>
       THEN /\ alert' = "Empty Task"
            /\ UNCHANGED <<tasks, inputText, pendingWrites>>
       ELSE /\ Len(tasks.items) < MaxTasks
            /\ CanSave
            /\ tasks' = Arr(<<Task(ToString(clock), Trim(inputText), FALSE)>>
                            \o tasks.items)
            /\ inputText' = <<>>
            /\ pendingWrites' = pendingWrites \o saveTasks(tasks'.items)
            /\ UNCHANGED alert
    /\ lastOp' = Op("add", <<>>, <<>>)
    /\ ops' = ops + 1
    /\ UNCHANGED <<crashed, storage, written, load, clock, session>>

\* An add that tests inputText === '' without trimming it.
addTaskNoTrim ==
    /\ Interactive
    /\ CanPress
    /\ IF inputText = <<>>
       THEN /\ alert' = "Empty Task"
            /\ UNCHANGED <<tasks, inputText, pendingWrites>>
       ELSE /\ Len(tasks.items) < MaxTasks
            /\ CanSave
            /\ tasks' = Arr(Append(tasks.items,
                                   Task(ToString(clock), Trim(inputText), FALSE)))
            /\ inputText' = <<>>
            /\ pendingWrites' = pendingWrites \o saveTasks(tasks'.items)
            /\ UNCHANGED alert
    /\ lastOp' = Op("add", <<>>, <<>>)
    /\ ops' = ops + 1
    /\ UNCHANGED <<crashed, storage, written, load, clock, session>>

\* onPress={addTask}, onSubmitEditing={addTask}
addTask ==
    /\ Interactive
    /\ CanPress
    /\ IF Trim(inputText) = <<>>
       THEN /\ alert' = "Empty Task"
            /\ UNCHANGED <<tasks, inputText, pendingWrites>>
       ELSE /\ Len(tasks.items) < MaxTasks
            /\ CanSave
            /\ tasks' = Arr(Append(tasks.items,
                                   Task(ToString(clock), Trim(inputText), FALSE)))
            /\ inputText' = <<>>
            /\ pendingWrites' = pendingWrites \o saveTasks(tasks'.items)
            /\ UNCHANGED alert
    /\ lastOp' = Op("add", <<>>, <<>>)
    /\ ops' = ops + 1
    /\ UNCHANGED <<crashed, storage, written, load, clock, session>>

\* The user closes the Alert.
dismissAlert ==
    /\ ~crashed
    /\ alert # ""
    /\ alert' = ""
    /\ UNCHANGED <<tasks, inputText, crashed, storage, written, load,
                   pendingWrites, clock, lastOp, session, ops>>

\* tasks.map(task => task.id === id ? {...task, completed: !task.completed} : task)
Toggled(items, id) ==
    [i \in DOMAIN items |->
        IF items[i].id = id
        THEN [items[i] EXCEPT !.completed = ~items[i].completed]
        ELSE items[i]]

\* A toggle that sets completed: true instead of flipping it.
toggleTaskSetsDone(id) ==
    /\ Interactive
    /\ CanPress
    /\ CanSave
    /\ tasks' = Arr([i \in DOMAIN tasks.items |->
                       IF tasks.items[i].id = id
                       THEN [tasks.items[i] EXCEPT !.completed = TRUE]
                       ELSE tasks.items[i]])
    /\ pendingWrites' = pendingWrites \o saveTasks(tasks'.items)
    /\ lastOp' = Op("toggle", id, tasks.items)
    /\ ops' = ops + 1
    /\ UNCHANGED <<inputText, alert, crashed, storage, written, load,
                   clock, session>>

\* onToggle={toggleTask}
toggleTask(id) ==
    /\ Interactive
    /\ CanPress
    /\ CanSave
    /\ tasks' = Arr(Toggled(tasks.items, id))
    /\ pendingWrites' = pendingWrites \o saveTasks(tasks'.items)
    /\ lastOp' = Op("toggle", id, tasks.items)
    /\ ops' = ops + 1
    /\ UNCHANGED <<inputText, alert, crashed, storage, written, load,
                   clock, session>>

\* tasks.filter(task => task.id !== id)
Filtered(items, id) == SelectSeq(items, LAMBDA task : task.id # id)

\* The list with the element at the index findIndex gives spliced out:
\* the last one when no task has the id.
Spliced(items, id) ==
    IF \E i \in DOMAIN items : items[i].id = id
    THEN Filtered(items, id)
    ELSE SubSeq(items, 1, Len(items) - 1)

\* A delete by tasks.splice(tasks.findIndex(...), 1).
deleteTaskSplices(id) ==
    /\ Interactive
    /\ CanPress
    /\ CanSave
    /\ tasks' = Arr(Spliced(tasks.items, id))
    /\ pendingWrites' = pendingWrites \o saveTasks(tasks'.items)
    /\ lastOp' = Op("delete", id, <<>>)
    /\ ops' = ops + 1
    /\ UNCHANGED <<inputText, alert, crashed, storage, written, load,
                   clock, session>>

\* onDelete={deleteTask}
deleteTask(id) ==
    /\ Interactive
    /\ CanPress
    /\ CanSave
    /\ tasks' = Arr(Filtered(tasks.items, id))
    /\ pendingWrites' = pendingWrites \o saveTasks(tasks'.items)
    /\ lastOp' = Op("delete", id, <<>>)
    /\ ops' = ops + 1
    /\ UNCHANGED <<inputText, alert, crashed, storage, written, load,
                   clock, session>>

\* AsyncStorage carries out the getItem: loadTasks has its answer.
getItemResolves ==
    /\ load.pc = "getItem"
    /\ load' = [pc |-> "resume", result |-> storage, src |-> written]
    /\ UNCHANGED <<tasks, inputText, alert, crashed, storage, written,
                   pendingWrites, clock, lastOp, session, ops>>

\* getItem rejects: the catch of loadTasks logs it.
getItemRejects ==
    /\ load.pc = "getItem"
    /\ load' = [pc |-> "failed", result |-> Null, src |-> NotBySave]
    /\ session' = [session EXCEPT !.failed = TRUE]
    /\ UNCHANGED <<tasks, inputText, alert, crashed, storage, written,
                   pendingWrites, clock, lastOp, ops>>

\* loadTasks after its await.  null: nothing.  JSON.parse throws: the catch
\* logs it.  Otherwise setTasks(value): an array re-renders and is saved by
\* the [tasks] effect; any other value makes the render throw at tasks.filter.
loadTasks ==
    /\ load.pc = "resume"
    /\ load' = [load EXCEPT !.pc = "done", !.result = Null]
    /\ lastOp' = Op("load", <<>>, <<>>)
    /\ LET storedTasks == load.result
           parsed == Parse(storedTasks.value)
       IN  IF ~storedTasks.present \/ ~parsed.ok
           THEN UNCHANGED <<tasks, crashed, pendingWrites>>
           ELSE /\ tasks' = parsed.value
                /\ IF parsed.value.kind = "array"
                   THEN /\ CanSave
                        /\ pendingWrites' = pendingWrites \o saveTasks(tasks'.items)
                        /\ UNCHANGED crashed
                   ELSE /\ crashed' = TRUE
                        /\ UNCHANGED pendingWrites
    /\ UNCHANGED <<inputText, alert, storage, written, clock, session, ops>>

Without(s, i) == SubSeq(s, 1, i - 1) \o SubSeq(s, i + 1, Len(s))

\* AsyncStorage carries out one of the setItem calls in flight.
setItemResolves(i) ==
    /\ i \in DOMAIN pendingWrites
    /\ storage' = Item(pendingWrites[i].value)
    /\ written' = BySave(pendingWrites[i].src)
    /\ pendingWrites' = Without(pendingWrites, i)
    /\ UNCHANGED <<tasks, inputText, alert, crashed, load, clock, lastOp,
                   session, ops>>

\* setItem rejects: the catch of saveTasks logs it.
setItemRejects(i) ==
    /\ i \in DOMAIN pendingWrites
    /\ pendingWrites' = Without(pendingWrites, i)
    /\ session' = [session EXCEPT !.failed = TRUE]
    /\ UNCHANGED <<tasks, inputText, alert, crashed, storage, written, load,
                   clock, lastOp, ops>>

\* A millisecond passes.
Tick ==
    /\ clock < StartClock + MaxTicks
    /\ clock' = clock + 1
    /\ UNCHANGED <<tasks, inputText, alert, crashed, storage, written, load,
                   pendingWrites, lastOp, session, ops>>

Next ==
    \/ \E text \in Inputs : setInputText(text)
    \/ addTask
    \/ dismissAlert
    \/ \E id \in RowIds : toggleTask(id)
    \/ \E id \in RowIds : deleteTask(id)
    \/ getItemResolves
    \/ getItemRejects
    \/ loadTasks
    \/ \E i \in 1 .. MaxPending : setItemResolves(i)
    \/ \E i \in 1 .. MaxPending : setItemRejects(i)
    \/ Tick

Spec == Init /\ [][Next]_vars

(* ============================ properties ============================== *)

\* s has a character that is no space: its trimmed text is non-empty.
NonBlank(s) == \E i \in DOMAIN s : s[i] # " "

Spaces(n) == [i \in 1 .. n |-> " "]

\* t is s without the spaces at its two ends.
IsTrimOf(t, s) ==
    /\ t = <<>> \/ (t[1] # " " /\ t[Len(t)] # " ")
    /\ \E i, j \in 0 .. Len(s) : s = Spaces(i) \o t \o Spaces(j)

SameIdAndText(t, u) == t.id = u.id /\ t.text = u.text

\* C1: at every reachable state no two tasks of the list have the same id.
C1_UniqueIds ==
    tasks.kind = "array" =>
        \A i, j \in DOMAIN tasks.items :
            i # j => tasks.items[i].id # tasks.items[j].id

\* C2: an add of an input whose trimmed text is non-empty raises totalCount
\* by exactly 1; the new task is not completed, carries the trimmed input,
\* and comes after all the tasks there were, which keep their id, text,
\* flag and place.
C2_AddAppendsOne ==
    [][(addTask /\ NonBlank(inputText)) =>
         LET old == tasks.items
             new == tasks'.items
         IN  /\ Len(new) = Len(old) + 1
             /\ new[Len(new)].completed = FALSE
             /\ IsTrimOf(new[Len(new)].text, inputText)
             /\ SubSeq(new, 1, Len(old)) = old]_vars

\* An add has just put a second task behind a loaded, completed one.
C2_Witness ==
    /\ lastOp.op = "add"
    /\ totalCount = 2
    /\ tasks.items[1].completed
    /\ tasks.items[2] = Task(ToString(clock), <<"a">>, FALSE)

\* C3: an add of an input that is empty or all spaces leaves the list as it
\* is, puts the "Empty Task" alert on screen and issues no save.
C3_EmptyInputRejected ==
    [][(addTask /\ ~NonBlank(inputText)) =>
         /\ tasks' = tasks
         /\ alert' = "Empty Task"
         /\ pendingWrites' = pendingWrites]_vars

\* An add of an all-spaces input was refused while the list held a task.
C3_Witness ==
    /\ alert = "Empty Task"
    /\ inputText = <<" ", " ">>
    /\ lastOp.op = "add"
    /\ totalCount > 0

\* C4: a toggle of a task's id straight after a toggle of the same id gives
\* back the list as it was before the first of the two.
C4_ToggleTwice ==
    [][\A id \in RowIds :
          (lastOp.op = "toggle" /\ lastOp.arg = id /\ toggleTask(id)) =>
              tasks'.items = lastOp.before]_vars

\* The second of two presses, both toggles of a task of the loaded list, has
\* been made: the list is the loaded one again.
C4_Witness ==
    /\ ops = 2
    /\ load.pc = "done"
    /\ lastOp.op = "toggle"
    /\ \E i \in DOMAIN tasks.items : tasks.items[i].id = lastOp.arg
    /\ tasks.items # lastOp.before
    /\ tasks.items \in EarlierTasks

\* C5: straight after a delete of an id, a toggle or a second delete of that
\* id leaves the list as it is and breaks nothing.
C5_AfterDeleteNoOp ==
    [][\A id \in RowIds :
          (lastOp.op = "delete" /\ lastOp.arg = id
             /\ (toggleTask(id) \/ deleteTask(id))) =>
              tasks' = tasks /\ ~crashed']_vars

\* A toggle was pressed for an id that a delete had just taken out of a list
\* that still holds another task.
C5_Witness ==
    /\ ops = 2
    /\ lastOp.op = "toggle"
    /\ \A i \in DOMAIN tasks.items : tasks.items[i].id # lastOp.arg
    /\ totalCount > 0

\* C6: a load that reads the text a save wrote sets the list to the very
\* list that was saved.
C6_SaveLoadRoundTrip ==
    (load.pc = "done" /\ lastOp.op = "load" /\ load.src.bySave) =>
        tasks = Arr(load.src.items)

\* The load read what a save of this run wrote: a list with a task added in
\* this run and a completed task.
C6_Witness ==
    /\ load.pc = "done" /\ lastOp.op = "load" /\ load.src.bySave
    /\ \E i \in DOMAIN tasks.items : tasks.items[i].id = ToString(StartClock)
    /\ completedCount > 0

\* C7: whatever lies under the key, the list is always a sequence of tasks
\* and the screen never goes down; text that is no task sequence leaves the
\* list empty when the load is over and nothing else was done.
C7_CorruptLoadsEmpty ==
    /\ tasks.kind = "array"
    /\ ~crashed
    /\ (session.start.present /\ session.start.value \in Corrupted
          /\ load.pc = "done" /\ ops = 0) => tasks = Arr(<<>>)

\* C8: when the load is over, no write is in flight and none has failed, the
\* record is the text of the list in memory.
C8_RecordInSync ==
    (load.pc \in {"done", "failed"} /\ pendingWrites = <<>>
       /\ ~session.failed /\ ~crashed) =>
        storage = Item(Stringify(tasks.items))

\* C9: a task of the list is in the list after every step that leaves the
\* screen up, unless the step is a delete of its id.
C9_OnlyDeleteDestroys ==
    [][\A i \in DOMAIN tasks.items :
          \/ crashed'
          \/ \E j \in DOMAIN tasks'.items :
                SameIdAndText(tasks.items[i], tasks'.items[j])
          \/ \E id \in RowIds : id = tasks.items[i].id /\ deleteTask(id)]_vars

\* C10: the app started on a saved, non-empty list, the user pressed and
\* typed nothing, the read and all the writes are over and none failed:
\* the list and the record are both the saved list.
C10_StartupKeepsTasks ==
    LET parsed == Parse(session.start.value)
    IN  (/\ session.start.present
         /\ parsed.ok /\ parsed.value.kind = "array" /\ parsed.value.items # <<>>
         /\ ops = 0 /\ inputText = <<>>
         /\ load.pc = "done" /\ pendingWrites = <<>> /\ ~session.failed) =>
            tasks = parsed.value /\ storage = session.start
====
